---- MODULE Spec2Model ----
(***************************************************************************)
(* The document cache of the HealthDocumentTracker front end               *)
(* (DocumentCacheProvider, src/Frontend/components/navigation/Header/      *)
(* index.tsx lines 101-260): a TTL cache of the user's document list with  *)
(* a single-flight guard, stale-while-revalidate reads and optimistic      *)
(* add / remove.                                                           *)
(*                                                                         *)
(* Abstractions.                                                           *)
(*  - A Document is represented by its id; the cache never looks at any    *)
(*    other field (only doc.id, line 212).                                 *)
(*  - Date.now() is the variable now, in milliseconds since the provider   *)
(*    was constructed; only differences of clock readings are used.        *)
(*  - Every handler runs in a task of its own and React commits the state  *)
(*    it queued before the next task starts, so the closures of            *)
(*    getDocuments / isCacheStale read the committed cache.                *)
(*  - The continuation of fetchDocuments after `await apiListDocuments()`  *)
(*    (try / catch / finally, lines 160-173) runs without interruption and *)
(*    is one step.                                                         *)
(*  - The screens that write to the cache (UploadPage, DocumentViewer)     *)
(*    are modelled by their handlers' steps between awaits; they run in    *)
(*    UploadSpec and ViewerSpec, and Spec covers their calls by arbitrary  *)
(*    addDocument / removeDocument steps.                                  *)
(***************************************************************************)
EXTENDS Integers, Sequences, FiniteSets, TLC

(* ------------------------------ bounds --------------------------------- *)
\* longest documents list the model lets addDocument build
MaxDocs == 3
\* longest list the Document Listing Service returns
MaxResp == 2
\* the clock stops advancing here (milliseconds)
MaxNow == 181000
\* pending apiListDocuments() promises the model has room for
MaxInflight == 2
\* most files selected for one submit of the upload page
MaxFiles == 2

(* ----------------------------- constants ------------------------------- *)
CACHE_TTL == 2 * 60 * 1000

\* lastFetched: number | null; null is a value no clock reading takes
Null == -1

DocIds == {"a", "b", "c"}

\* amounts of time that pass between two handlers: exactly the TTL, just
\* over it, and well over it (three minutes)
TickSteps == {CACHE_TTL, CACHE_TTL + 1, 3 * 60 * 1000}

VARIABLES
    cache,         \* useState<DocumentCache>: documents, lastFetched, isLoading
    fetchingRef,   \* useRef(false): the single-flight guard
    inflight,      \* pending apiListDocuments() promises, oldest first
    now,           \* Date.now()
    last,          \* the last handler that ran and what its caller observed
    screens        \* the upload page's submit loop and the viewer's pending delete

vars == <<cache, fetchingRef, inflight, now, last, screens>>

(* ------------------------------ helpers -------------------------------- *)
NoDup(s) == \A i, j \in 1..Len(s) : i # j => s[i] # s[j]

RECURSIVE SeqsUpTo(_)
SeqsUpTo(n) ==
    IF n = 0 THEN {<<>>}
    ELSE LET shorter == SeqsUpTo(n - 1)
         IN  shorter \cup {Append(s, d) : s \in {t \in shorter : Len(t) = n - 1}, d \in DocIds}

RemoveAt(s, i) == SubSeq(s, 1, i - 1) \o SubSeq(s, i + 1, Len(s))

\* DocumentListResponse bodies: a duplicate-free list, or a body without the
\* documents field
ResponseBodies ==
    {[hasDocuments |-> TRUE, documents |-> s] : s \in {t \in SeqsUpTo(MaxResp) : NoDup(t)}}
        \cup {[hasDocuments |-> FALSE, documents |-> <<>>]}

NoBody == [hasDocuments |-> FALSE, documents |-> <<>>]

\* a call of fetchDocuments that went to the network
FetchCall(caller, force, showLoading, awaited) ==
    [caller |-> caller, force |-> force, showLoading |-> showLoading, awaited |-> awaited]

NoCall == FetchCall("none", FALSE, FALSE, FALSE)

\* what is recorded of a handler: the operation and its arguments, the fetch
\* it made (issued: it went to the network), the service's answer, the state
\* of the caller's promise, how many documents the cache had before it ran
\* and the operation that ran before it
Event(op, force, doc, call, issued, service, body, result, before) ==
    [op |-> op, force |-> force, doc |-> doc, call |-> call, issued |-> issued,
     service |-> service, body |-> body, result |-> result, had |-> Len(before),
     prev |-> last.op]

NoEvent ==
    [op |-> "init", force |-> FALSE, doc |-> "", call |-> NoCall, issued |-> FALSE,
     service |-> "", body |-> NoBody, result |-> "", had |-> 0, prev |-> ""]

\* no submit running (isUploading false) and no delete pending (isDeleting
\* false): totalFiles and i are the submit loop's, uploads counts pending
\* uploadDocument() promises, deleting is the id whose delete is pending
NoScreens == [totalFiles |-> 0, i |-> 0, uploads |-> 0, deleting |-> ""]

(* ------------------------------ the cache ------------------------------ *)
InitialCache == [documents |-> <<>>, lastFetched |-> Null, isLoading |-> FALSE]

Init ==
    /\ cache = InitialCache
    /\ fetchingRef = FALSE
    /\ inflight = <<>>
    /\ now = 0
    /\ last = NoEvent
    /\ screens = NoScreens

\* staleness with >= in place of >
isCacheStaleInclusive ==
    IF cache.lastFetched = Null THEN TRUE
    ELSE now - cache.lastFetched >= CACHE_TTL

\* the two clock readings subtracted the wrong way round
isCacheStaleSwapped ==
    IF cache.lastFetched = Null THEN TRUE
    ELSE cache.lastFetched - now > CACHE_TTL

\* a cache that was never fetched taken for fresh
isCacheStaleNullFresh ==
    IF cache.lastFetched = Null THEN FALSE
    ELSE now - cache.lastFetched > CACHE_TTL

\* lines 139-143
isCacheStale ==
    IF cache.lastFetched = Null THEN TRUE
    ELSE now - cache.lastFetched > CACHE_TTL

\* fetchDocuments without its early return
GuardNeverBlocks == FALSE

\* line 150: if (fetchingRef.current) return;
GuardBlocks == fetchingRef

\* fetchDocuments ignoring its showLoading parameter
LoadingOnStartAlways(showLoading) == [cache EXCEPT !.isLoading = TRUE]

\* lines 154-156
LoadingOnStart(showLoading) ==
    IF showLoading THEN [cache EXCEPT !.isLoading = TRUE] ELSE cache

\* a body without the documents field leaves the list as it was
DocumentsOfOrKeep(body) == IF body.hasDocuments THEN body.documents ELSE cache.documents

\* line 160: response.documents || []
DocumentsOf(body) == IF body.hasDocuments THEN body.documents ELSE <<>>

\* a fetch that keeps the local entries the response does not list
CacheOnSuccessMerging(documents) ==
    [documents |-> documents \o SelectSeq(cache.documents,
                                          LAMBDA doc : \A i \in 1..Len(documents) : documents[i] # doc),
     lastFetched |-> now, isLoading |-> FALSE]

\* a success path that forgets to stamp the fetch time
CacheOnSuccessNoStamp(documents) ==
    [cache EXCEPT !.documents = documents, !.isLoading = FALSE]

\* lines 162-166
CacheOnSuccess(documents) ==
    [documents |-> documents, lastFetched |-> now, isLoading |-> FALSE]

\* a catch block that resets the cache instead of keeping it
CacheOnFailureReset == [documents |-> <<>>, lastFetched |-> Null, isLoading |-> FALSE]

\* a catch block that forgets to clear isLoading
CacheOnFailureKeepsLoading == cache

\* a catch block that records the time of the failed attempt
CacheOnFailureStamping == [cache EXCEPT !.isLoading = FALSE, !.lastFetched = now]

\* line 169
CacheOnFailure == [cache EXCEPT !.isLoading = FALSE]

\* the guard released at the end of the try block instead of in finally
GuardOnExitNoFinally(ok) == ~ok

\* line 172, the finally block; ok tells which of try / catch ran before it
GuardOnExit(ok) == FALSE

\* fetchDocuments up to its await (lines 148-159) on behalf of `call`
fetchDocuments(call) ==
    IF GuardBlocks
    THEN UNCHANGED <<cache, fetchingRef, inflight>>
    ELSE /\ Len(inflight) < MaxInflight
         /\ fetchingRef' = TRUE
         /\ cache' = LoadingOnStart(call.showLoading)
         /\ inflight' = Append(inflight, call)

\* a caller that awaits is attached to the fetch already in flight
PromiseAfterCallAttach(call) == IF call.awaited THEN "pending" ELSE "resolved"

\* the promise returned to the caller of getDocuments / refreshDocuments
\* right after the call: pending only if it awaits a fetch it has issued
PromiseAfterCall(call) ==
    IF ~GuardBlocks /\ call.awaited THEN "pending" ELSE "resolved"

\* getDocuments without the empty-list test
NeedsForegroundForceOnly(forceRefresh) == forceRefresh

\* line 182
NeedsForeground(forceRefresh) == Len(cache.documents) = 0 \/ forceRefresh

getDocuments(forceRefresh) ==
    IF NeedsForeground(forceRefresh)
    THEN LET call == FetchCall("getDocuments", forceRefresh, TRUE, TRUE)
         IN  /\ fetchDocuments(call)
             /\ last' = Event("getDocuments", forceRefresh, "", call, ~GuardBlocks, "", NoBody,
                              PromiseAfterCall(call), cache.documents)
    ELSE IF isCacheStale
    THEN LET call == FetchCall("getDocuments", forceRefresh, FALSE, FALSE)
         IN  /\ fetchDocuments(call)
             /\ last' = Event("getDocuments", forceRefresh, "", call, ~GuardBlocks, "", NoBody,
                              PromiseAfterCall(call), cache.documents)
    ELSE /\ UNCHANGED <<cache, fetchingRef, inflight>>
         /\ last' = Event("getDocuments", forceRefresh, "", NoCall, FALSE, "", NoBody,
                          "resolved", cache.documents)

GetDocuments ==
    \E forceRefresh \in BOOLEAN :
        /\ getDocuments(forceRefresh)
        /\ UNCHANGED <<now, screens>>

\* refreshDocuments calling fetchDocuments with its default showLoading
refreshDocumentsWithLoading ==
    LET call == FetchCall("refreshDocuments", FALSE, TRUE, TRUE)
    IN  /\ fetchDocuments(call)
        /\ last' = Event("refreshDocuments", FALSE, "", call, ~GuardBlocks, "", NoBody,
                         PromiseAfterCall(call), cache.documents)

\* lines 219-221
refreshDocuments ==
    LET call == FetchCall("refreshDocuments", FALSE, FALSE, TRUE)
    IN  /\ fetchDocuments(call)
        /\ last' = Event("refreshDocuments", FALSE, "", call, ~GuardBlocks, "", NoBody,
                         PromiseAfterCall(call), cache.documents)

RefreshDocuments ==
    /\ refreshDocuments
    /\ UNCHANGED <<now, screens>>

\* the new document put at the end of the list
Appended(document) == cache.documents \o <<document>>

\* line 202: [document, ...prev.documents]
Prepended(document) == <<document>> \o cache.documents

\* an addDocument that counts as a refresh of the cache
addDocumentStamping(document) ==
    /\ cache' = [documents |-> Prepended(document), lastFetched |-> now, isLoading |-> FALSE]
    /\ last' = Event("addDocument", FALSE, document, NoCall, FALSE, "", NoBody, "",
                     cache.documents)

\* lines 199-204
addDocument(document) ==
    /\ cache' = [cache EXCEPT !.documents = Prepended(document)]
    /\ last' = Event("addDocument", FALSE, document, NoCall, FALSE, "", NoBody, "",
                     cache.documents)

AddDocument ==
    \E document \in DocIds :
        /\ Len(cache.documents) < MaxDocs
        /\ addDocument(document)
        /\ UNCHANGED <<fetchingRef, inflight, now, screens>>

\* removal by splice(findIndex(...), 1): an id that is not there gives index
\* -1, and splice(-1, 1) drops the last entry
FilteredBySplice(documentId) ==
    LET found == {i \in 1..Len(cache.documents) : cache.documents[i] = documentId}
    IN  IF found = {}
        THEN SubSeq(cache.documents, 1, Len(cache.documents) - 1)
        ELSE RemoveAt(cache.documents, CHOOSE i \in found : \A j \in found : i <= j)

\* removal of the first matching entry only
FilteredFirstOnly(documentId) ==
    LET found == {i \in 1..Len(cache.documents) : cache.documents[i] = documentId}
    IN  IF found = {}
        THEN cache.documents
        ELSE RemoveAt(cache.documents, CHOOSE i \in found : \A j \in found : i <= j)

\* line 212: prev.documents.filter(doc => doc.id !== documentId)
Filtered(documentId) == SelectSeq(cache.documents, LAMBDA doc : doc # documentId)

\* lines 209-214
removeDocument(documentId) ==
    /\ cache' = [cache EXCEPT !.documents = Filtered(documentId)]
    /\ last' = Event("removeDocument", FALSE, documentId, NoCall, FALSE, "", NoBody, "",
                     cache.documents)

RemoveDocument ==
    \E documentId \in DocIds :
        /\ removeDocument(documentId)
        /\ UNCHANGED <<fetchingRef, inflight, now, screens>>

\* invalidateCache written with ...prev, so that isLoading survives
InvalidatedKeepsLoading ==
    [documents |-> <<>>, lastFetched |-> Null, isLoading |-> cache.isLoading]

\* lines 227-231
InvalidatedCache == [documents |-> <<>>, lastFetched |-> Null, isLoading |-> FALSE]

\* lines 226-232
invalidateCache ==
    /\ cache' = InvalidatedCache
    /\ last' = Event("invalidateCache", FALSE, "", NoCall, FALSE, "", NoBody, "",
                     cache.documents)

\* an invalidateCache that also drops the pending fetch and frees the guard
InvalidateCacheCancelling ==
    /\ invalidateCache
    /\ fetchingRef' = FALSE
    /\ inflight' = <<>>
    /\ UNCHANGED <<now, screens>>

InvalidateCache ==
    /\ invalidateCache
    /\ UNCHANGED <<fetchingRef, inflight, now, screens>>

\* getDocuments without the .catch on its background fetch
SettledPromiseNoCatch(call, ok) == IF ok THEN "resolved" ELSE "rejected"

\* what the caller of getDocuments / refreshDocuments observes when the fetch
\* made for it settles: `throw error` (line 170) reaches the caller through
\* `await fetchDocuments(...)` (lines 183, 220) and is caught and logged on the
\* background path (lines 190-192)
SettledPromise(call, ok) ==
    IF ok THEN "resolved"
    ELSE IF call.awaited THEN "rejected" ELSE "swallowed"

\* apiListDocuments() resolves with `body`: lines 159-166, then 171-173
ListResolves ==
    \E i \in 1..Len(inflight), body \in ResponseBodies :
        /\ cache' = CacheOnSuccess(DocumentsOf(body))
        /\ fetchingRef' = GuardOnExit(TRUE)
        /\ inflight' = RemoveAt(inflight, i)
        /\ last' = Event("settle", inflight[i].force, "", inflight[i], FALSE, "ok", body,
                         SettledPromise(inflight[i], TRUE), cache.documents)
        /\ UNCHANGED <<now, screens>>

\* a failure handler that sends the request again by itself
ListRejectsRetrying ==
    \E i \in 1..Len(inflight) :
        /\ cache' = CacheOnFailure
        /\ last' = Event("settle", inflight[i].force, "", inflight[i], FALSE, "error", NoBody,
                         SettledPromise(inflight[i], FALSE), cache.documents)
        /\ UNCHANGED <<fetchingRef, inflight, now, screens>>

\* apiListDocuments() rejects: lines 167-173
ListRejects ==
    \E i \in 1..Len(inflight) :
        /\ cache' = CacheOnFailure
        /\ fetchingRef' = GuardOnExit(FALSE)
        /\ inflight' = RemoveAt(inflight, i)
        /\ last' = Event("settle", inflight[i].force, "", inflight[i], FALSE, "error", NoBody,
                         SettledPromise(inflight[i], FALSE), cache.documents)
        /\ UNCHANGED <<now, screens>>

\* time passes between two handlers
Tick ==
    \E d \in TickSteps :
        /\ now + d <= MaxNow
        /\ now' = now + d
        /\ last' = Event("tick", FALSE, "", NoCall, FALSE, "", NoBody, "", cache.documents)
        /\ UNCHANGED <<cache, fetchingRef, inflight, screens>>

Next ==
    \/ GetDocuments
    \/ RefreshDocuments
    \/ AddDocument
    \/ RemoveDocument
    \/ InvalidateCache
    \/ ListResolves
    \/ ListRejects
    \/ Tick

Spec == Init /\ [][Next]_vars

\* the Document Listing Service answers every call it receives
FairSpec == Spec /\ WF_vars(ListResolves \/ ListRejects)

(* ------------------------ the documented scenario ---------------------- *)
\* One use of the cache, step by step: a first read answered with [a, b],
\* one addDocument, one removeDocument, a wait, a second read and its answer.
\* The added and removed ids, the wait and the second answer are left open.
ScenarioRead ==
    /\ last.op \in {"init", "tick"}
    /\ getDocuments(FALSE)
    /\ UNCHANGED <<now, screens>>

ScenarioFirstAnswer ==
    /\ last.op = "getDocuments"
    /\ now = 0
    /\ ListResolves
    /\ last'.body = [hasDocuments |-> TRUE, documents |-> <<"a", "b">>]

ScenarioAdd ==
    /\ last.op = "settle"
    /\ now = 0
    /\ AddDocument

ScenarioRemove ==
    /\ last.op = "addDocument"
    /\ RemoveDocument

ScenarioWait ==
    /\ last.op = "removeDocument"
    /\ Tick

ScenarioSecondAnswer ==
    /\ last.op = "getDocuments"
    /\ now > 0
    /\ ListResolves

ScenarioSecondFailure ==
    /\ last.op = "getDocuments"
    /\ now > 0
    /\ ListRejects

ScenarioNext ==
    \/ ScenarioRead
    \/ ScenarioFirstAnswer
    \/ ScenarioAdd
    \/ ScenarioRemove
    \/ ScenarioWait
    \/ ScenarioSecondAnswer
    \/ ScenarioSecondFailure

ScenarioSpec == Init /\ [][ScenarioNext]_vars

(* ------------------------- the screens' handlers ------------------------ *)
\* UploadPage (components/screens/UploadPage/index.tsx) and DocumentViewer
\* (components/screens/DocumentViewer/index.tsx).  Of the submit loop only
\* what reaches the cache is kept: successCount, failCount and the alerts
\* are left out.  A step is the handler up to its next await.

\* uploadDocument() resolves with a body that may lack the document record
UploadResponses ==
    {[hasDocument |-> TRUE, document |-> d] : d \in DocIds}
        \cup {[hasDocument |-> FALSE, document |-> ""]}

\* UploadPage line 31 / DocumentViewer line 34
isUploading == screens.totalFiles > 0

isDeleting == screens.deleting # ""

\* UploadPage lines 95-101: the loop awaits the upload of the first file
UploadsOnSubmit(totalFiles) == 1

\* UploadPage lines 82-101: nothing selected gives an alert and returns
handleSubmit(totalFiles) ==
    /\ screens' = IF totalFiles = 0 THEN screens
                  ELSE [screens EXCEPT !.totalFiles = totalFiles, !.i = 0,
                                       !.uploads = UploadsOnSubmit(totalFiles)]
    /\ last' = Event("handleSubmit", FALSE, "", NoCall, FALSE, "", NoBody, "",
                     cache.documents)

\* the submit button is disabled while isUploading (line 237)
HandleSubmit ==
    \E totalFiles \in 0..MaxFiles :
        /\ ~isUploading
        /\ handleSubmit(totalFiles)
        /\ UNCHANGED <<cache, fetchingRef, inflight, now>>

\* the loop after the upload of file i settled: on to the await of the next
\* file (lines 97-101), or out of the loop and, in finally (lines 152-154),
\* isUploading false
AfterUpload ==
    IF screens.i + 1 < screens.totalFiles
    THEN [screens EXCEPT !.i = @ + 1]
    ELSE [screens EXCEPT !.totalFiles = 0, !.i = 0, !.uploads = @ - 1]

\* an upload page that adds whatever the response carries
AddedByUploadUnchecked(response) == Prepended(response.document)

\* UploadPage lines 103-105: if (response.document) addDocument(...)
AddedByUpload(response) ==
    IF response.hasDocument THEN Prepended(response.document) ELSE cache.documents

\* uploadDocument(file) resolves: UploadPage lines 101-107
UploadResolves ==
    \E response \in UploadResponses :
        /\ screens.uploads > 0
        /\ response.hasDocument => Len(cache.documents) < MaxDocs
        /\ cache' = [cache EXCEPT !.documents = AddedByUpload(response)]
        /\ screens' = AfterUpload
        /\ last' = Event("upload", FALSE, response.document, NoCall, FALSE, "ok", NoBody,
                         "", cache.documents)
        /\ UNCHANGED <<fetchingRef, inflight, now>>

\* uploadDocument(file) rejects: UploadPage lines 108-112
UploadRejects ==
    /\ screens.uploads > 0
    /\ screens' = AfterUpload
    /\ last' = Event("upload", FALSE, "", NoCall, FALSE, "error", NoBody, "",
                     cache.documents)
    /\ UNCHANGED <<cache, fetchingRef, inflight, now>>

\* DocumentViewer lines 45-50: up to `await deleteDocumentApi(document.id)`;
\* the viewer shows a document of the list or of a search result
HandleDeleteConfirm ==
    \E documentId \in DocIds :
        /\ ~isDeleting
        /\ screens' = [screens EXCEPT !.deleting = documentId]
        /\ last' = Event("handleDeleteConfirm", FALSE, documentId, NoCall, FALSE, "",
                         NoBody, "", cache.documents)
        /\ UNCHANGED <<cache, fetchingRef, inflight, now>>

\* deleteDocumentApi resolves: DocumentViewer lines 50-56, then finally
DeleteResolves ==
    /\ isDeleting
    /\ cache' = [cache EXCEPT !.documents = Filtered(screens.deleting)]
    /\ screens' = [screens EXCEPT !.deleting = ""]
    /\ last' = Event("delete", FALSE, screens.deleting, NoCall, FALSE, "ok", NoBody, "",
                     cache.documents)
    /\ UNCHANGED <<fetchingRef, inflight, now>>

\* a viewer that takes the document out of the list whatever the service says
DeleteRejectsRemoving ==
    /\ isDeleting
    /\ cache' = [cache EXCEPT !.documents = Filtered(screens.deleting)]
    /\ screens' = [screens EXCEPT !.deleting = ""]
    /\ last' = Event("delete", FALSE, screens.deleting, NoCall, FALSE, "error", NoBody, "",
                     cache.documents)
    /\ UNCHANGED <<fetchingRef, inflight, now>>

\* deleteDocumentApi rejects: DocumentViewer lines 57-64 (an alert)
DeleteRejects ==
    /\ isDeleting
    /\ screens' = [screens EXCEPT !.deleting = ""]
    /\ last' = Event("delete", FALSE, screens.deleting, NoCall, FALSE, "error", NoBody, "",
                     cache.documents)
    /\ UNCHANGED <<cache, fetchingRef, inflight, now>>

\* DocumentStore reads and refreshes the list while the upload page adds
UploadNext ==
    \/ GetDocuments
    \/ RefreshDocuments
    \/ ListResolves
    \/ ListRejects
    \/ HandleSubmit
    \/ UploadResolves
    \/ UploadRejects

UploadSpec == Init /\ [][UploadNext]_vars

\* DocumentStore reads and refreshes the list while the viewer deletes
ViewerNext ==
    \/ GetDocuments
    \/ RefreshDocuments
    \/ ListResolves
    \/ ListRejects
    \/ HandleDeleteConfirm
    \/ DeleteResolves
    \/ DeleteRejects

ViewerSpec == Init /\ [][ViewerNext]_vars

(* ------------------------------- claims -------------------------------- *)
IsCall(e) == e.op \in {"getDocuments", "refreshDocuments"}

IsPlainGet(e) == e.op = "getDocuments" /\ ~e.force

\* C1: in every reachable state at most one call to the Document Listing
\* Service is in flight.
C1_SingleFlight == Len(inflight) <= 1

\* a call arrived while a fetch was in flight and was skipped
C1_Witness ==
    /\ IsCall(last)
    /\ ~last.issued
    /\ last.call # NoCall
    /\ Len(inflight) = 1

\* C2 (P1, freshness): a getDocuments() without forceRefresh made less than
\* CACHE_TTL after the last successful fetch issues no network call, whatever
\* the cache holds.
C2_Freshness ==
    [][ ( /\ IsPlainGet(last')
          /\ cache.lastFetched # Null
          /\ now < cache.lastFetched + CACHE_TTL )
        => inflight' = inflight ]_vars

\* C3: documents never holds two entries with the same id (the service's
\* lists are duplicate-free by construction of ResponseBodies).
C3_UniqueIds == NoDup(cache.documents)

\* populated and stale by the TTL
PopulatedStale ==
    /\ Len(cache.documents) > 0
    /\ cache.lastFetched # Null
    /\ now - cache.lastFetched > CACHE_TTL

\* C4 (P2): on a populated-stale cache a getDocuments() issues one network
\* call when none is in flight and none when one is, so N calls made before
\* any fetch settles issue exactly one.
C4_OneFetchWhenStale ==
    [][ (IsPlainGet(last') /\ PopulatedStale)
        => IF inflight = <<>>
           THEN Len(inflight') = 1 /\ last'.issued
           ELSE inflight' = inflight /\ ~last'.issued ]_vars

\* a second getDocuments() on the populated-stale cache found the background
\* fetch of the first one in flight
C4_Witness ==
    /\ IsPlainGet(last)
    /\ ~last.issued
    /\ PopulatedStale
    /\ inflight = <<FetchCall("getDocuments", FALSE, FALSE, FALSE)>>

\* C5: isLoading is true only while a fetch started with the loading
\* indicator is in flight, and it is false for as long as a fetch started
\* without it (stale revalidation, refreshDocuments) is in flight.
C5_LoadingOnlyForeground ==
    /\ cache.isLoading => \E i \in 1..Len(inflight) : inflight[i].showLoading
    /\ (\E i \in 1..Len(inflight) : ~inflight[i].showLoading) => ~cache.isLoading

\* a background fetch has just been started, on a cache that has documents
C5_Witness ==
    /\ IsCall(last)
    /\ last.issued
    /\ ~last.call.showLoading
    /\ inflight = <<last.call>>
    /\ ~cache.isLoading
    /\ Len(cache.documents) > 0

ForegroundGet(force) == FetchCall("getDocuments", force, TRUE, TRUE)

C7_InvalidateResets ==
    last.op = "invalidateCache"
        => /\ cache.documents = <<>>
           /\ cache.lastFetched = Null
           /\ cache.isLoading = FALSE

\* invalidateCache ran on a cache that held documents, right after a
\* getDocuments(true) whose foreground fetch is still in flight
C7_Witness ==
    /\ last.op = "invalidateCache"
    /\ last.prev = "getDocuments"
    /\ last.had > 0
    /\ inflight = <<ForegroundGet(TRUE)>>

\* C8 (P6): a getDocuments(true) that goes to the network leaves documents
\* and lastFetched alone when it starts, and when the service raises it
\* rejects to its caller, leaves documents and lastFetched alone again and
\* ends with isLoading false.
C8_ForegroundFailure ==
    [][ /\ (last'.op = "getDocuments" /\ last'.force /\ last'.issued)
           => /\ cache'.documents = cache.documents
              /\ cache'.lastFetched = cache.lastFetched
              /\ last'.result = "pending"
        /\ (last'.op = "settle" /\ last'.service = "error" /\ last'.call = ForegroundGet(TRUE))
           => /\ last'.result = "rejected"
              /\ cache'.documents = cache.documents
              /\ cache'.lastFetched = cache.lastFetched
              /\ ~cache'.isLoading ]_vars

\* the foreground fetch of a getDocuments(true) on a populated cache failed
C8_Witness ==
    /\ last.op = "settle"
    /\ last.service = "error"
    /\ last.call = ForegroundGet(TRUE)
    /\ last.result = "rejected"
    /\ Len(cache.documents) > 0
    /\ cache.lastFetched # Null

\* C9: the guard is held exactly while a call to the service is pending,
\* every answer of the service (success or failure) releases it, a
\* refreshDocuments() made with the guard released goes to the network, and
\* with a service that answers the guard never stays held for ever.
C9_GuardReleased ==
    /\ [](fetchingRef <=> inflight # <<>>)
    /\ [][ /\ last'.op = "settle" => ~fetchingRef'
           /\ (last'.op = "refreshDocuments" /\ ~fetchingRef)
              => (last'.issued /\ fetchingRef' /\ Len(inflight') = 1) ]_vars
    /\ []<>(~fetchingRef)

\* the service raised and the guard is free again
C9_Witness ==
    /\ last.op = "settle"
    /\ last.service = "error"
    /\ ~fetchingRef
    /\ inflight = <<>>

\* C10: a fetch that succeeds replaces documents by exactly the list the
\* service returned, whatever addDocument / removeDocument did during its
\* flight.
C10_LastFetchWins ==
    [][ (last'.op = "settle" /\ last'.service = "ok" /\ last'.body.hasDocuments)
        => cache'.documents = last'.body.documents ]_vars

\* a fetch returned the empty list right after an addDocument made during
\* its flight on a cache that already had documents: the added document and
\* the others are gone
C10_Witness ==
    /\ last.op = "settle"
    /\ last.service = "ok"
    /\ last.body.hasDocuments
    /\ last.prev = "addDocument"
    /\ last.had > 1
    /\ cache.documents = <<>>

BackgroundGet == FetchCall("getDocuments", FALSE, FALSE, FALSE)

\* C11: a getDocuments() on a stale cache with documents resolves at once,
\* leaving the cache as it is, and when the background fetch it started
\* fails nothing is raised and documents and lastFetched stay as they were.
C11_BackgroundFailureAbsorbed ==
    [][ /\ (IsPlainGet(last') /\ Len(cache.documents) > 0 /\ isCacheStale)
           => /\ last'.result = "resolved"
              /\ cache' = cache
        /\ (last'.op = "settle" /\ last'.service = "error" /\ last'.call = BackgroundGet)
           => /\ last'.result = "swallowed"
              /\ cache'.documents = cache.documents
              /\ cache'.lastFetched = cache.lastFetched ]_vars

\* the background fetch of a stale read failed on a cache that keeps its
\* documents and its old fetch time
C11_Witness ==
    /\ last.op = "settle"
    /\ last.service = "error"
    /\ last.call = BackgroundGet
    /\ last.result = "swallowed"
    /\ Len(cache.documents) > 0
    /\ cache.lastFetched # Null
    /\ now - cache.lastFetched > CACHE_TTL

\* C12: a getDocuments / refreshDocuments call made while a fetch is in
\* flight issues no network call, changes nothing of the cache or the guard
\* and resolves at once, so that no later failure can reach its caller.
C12_SkippedCall ==
    [][ (IsCall(last') /\ inflight # <<>>)
        => /\ ~last'.issued
           /\ inflight' = inflight
           /\ cache' = cache
           /\ fetchingRef' = fetchingRef
           /\ last'.result = "resolved" ]_vars

\* getDocuments(true) was called while a fetch was in flight
C12_Witness ==
    /\ last.op = "getDocuments"
    /\ last.force
    /\ last.call = ForegroundGet(TRUE)
    /\ ~last.issued
    /\ last.result = "resolved"
    /\ Len(inflight) = 1

\* C13 as stated: for as long as a fetch started with the loading indicator
\* is in flight, isLoading is true.
C13_LoadingWhileForeground ==
    (\E i \in 1..Len(inflight) : inflight[i].showLoading) => cache.isLoading

\* C13 as amended: with nothing in flight, getDocuments on an empty list or
\* with forceRefresh issues one call with isLoading true and stays pending;
\* isLoading then stays true until a fetch settles or invalidateCache runs;
\* when the service answers with a list the call resolves, documents is that
\* list, lastFetched is the time of the answer and isLoading is false.
C13_ForegroundFetch ==
    [][ /\ ( /\ last'.op = "getDocuments"
             /\ inflight = <<>>
             /\ (Len(cache.documents) = 0 \/ last'.force) )
           => /\ last'.issued
              /\ inflight' = <<ForegroundGet(last'.force)>>
              /\ cache'.isLoading
              /\ last'.result = "pending"
        /\ (cache.isLoading /\ last'.op \notin {"settle", "invalidateCache"})
           => (cache'.isLoading /\ inflight' = inflight)
        /\ ( /\ last'.op = "settle"
             /\ last'.service = "ok"
             /\ last'.call.caller = "getDocuments"
             /\ last'.call.showLoading )
           => /\ last'.result = "resolved"
              /\ cache'.documents = (IF last'.body.hasDocuments
                                     THEN last'.body.documents ELSE <<>>)
              /\ cache'.lastFetched = now'
              /\ ~cache'.isLoading ]_vars

\* a foreground fetch made after some time has passed was answered with a
\* list of two documents
C13_Witness ==
    /\ last.op = "settle"
    /\ last.service = "ok"
    /\ last.call.caller = "getDocuments"
    /\ last.call.showLoading
    /\ last.result = "resolved"
    /\ Len(cache.documents) = 2
    /\ cache.lastFetched = now
    /\ now > 0
    /\ ~cache.isLoading

RefreshCall == FetchCall("refreshDocuments", FALSE, FALSE, TRUE)

Fresh == cache.lastFetched # Null /\ now - cache.lastFetched <= CACHE_TTL

\* C14: with nothing in flight refreshDocuments() issues exactly one network
\* call whatever the freshness, leaves isLoading false while its fetch is in
\* flight, stays pending until the service answers, resolves on success and
\* rejects to its caller on failure.
C14_Refresh ==
    [][ /\ (last'.op = "refreshDocuments" /\ inflight = <<>>)
           => /\ last'.issued
              /\ inflight' = <<RefreshCall>>
              /\ cache' = cache
              /\ ~cache'.isLoading
              /\ last'.result = "pending"
        /\ (\E i \in 1..Len(inflight') : inflight'[i].caller = "refreshDocuments")
           => ~cache'.isLoading
        /\ (last'.op = "settle" /\ last'.call.caller = "refreshDocuments")
           => /\ last'.result = (IF last'.service = "ok" THEN "resolved" ELSE "rejected")
              /\ ~cache'.isLoading ]_vars

\* the fetch of a refreshDocuments() made on a fresh cache with documents
\* failed and the caller got the error
C14_Witness ==
    /\ last.op = "settle"
    /\ last.call = RefreshCall
    /\ last.service = "error"
    /\ last.result = "rejected"
    /\ Len(cache.documents) > 0
    /\ Fresh

\* C15 (P3): right after addDocument(d) the first entry of documents is d
\* and the rest is the previous list in its order.
C15_AddPrepends ==
    [][ last'.op = "addDocument"
        => /\ Head(cache'.documents) = last'.doc
           /\ Tail(cache'.documents) = cache.documents ]_vars

\* addDocument ran on a stale cache with documents while a fetch was in
\* flight, and its document is first
C15_Witness ==
    /\ last.op = "addDocument"
    /\ Len(cache.documents) >= 2
    /\ cache.documents[1] = last.doc
    /\ cache.documents[2] # last.doc
    /\ inflight # <<>>
    /\ cache.lastFetched # Null
    /\ now - cache.lastFetched > CACHE_TTL

Range(s) == {s[i] : i \in 1..Len(s)}

\* C16 (P4): a removeDocument(id) that follows a removeDocument(id), or whose
\* id is not in documents, leaves documents as it was.
C16_RemoveIdempotent ==
    [][ ( /\ last'.op = "removeDocument"
          /\ \/ last'.doc \notin Range(cache.documents)
             \/ (last.op = "removeDocument" /\ last.doc = last'.doc) )
        => cache'.documents = cache.documents ]_vars

\* removeDocument ran right after a removeDocument, on a list that has
\* documents but not that id, and removed nothing
C16_Witness ==
    /\ last.op = "removeDocument"
    /\ last.prev = "removeDocument"
    /\ last.doc \notin Range(cache.documents)
    /\ Len(cache.documents) > 0
    /\ last.had = Len(cache.documents)

\* C17: a getDocuments() without forceRefresh on a cache that has documents
\* and is not older than CACHE_TTL issues no network call and leaves
\* documents, lastFetched, isLoading and the guard as they were.
C17_FreshReadNoOp ==
    [][ (IsPlainGet(last') /\ Len(cache.documents) > 0 /\ Fresh)
        => /\ ~last'.issued
           /\ inflight' = inflight
           /\ cache' = cache
           /\ fetchingRef' = fetchingRef
           /\ last'.result = "resolved" ]_vars

\* getDocuments() ran with nothing in flight on documents fetched exactly
\* CACHE_TTL ago
C17_Witness ==
    /\ IsPlainGet(last)
    /\ last.call = NoCall
    /\ Len(cache.documents) > 0
    /\ cache.lastFetched # Null
    /\ now - cache.lastFetched = CACHE_TTL
    /\ inflight = <<>>

\* C18: addDocument leaves lastFetched, isLoading, the guard and the pending
\* calls as they were.
C18_AddFrame ==
    [][ last'.op = "addDocument"
        => /\ cache'.lastFetched = cache.lastFetched
           /\ cache'.isLoading = cache.isLoading
           /\ fetchingRef' = fetchingRef
           /\ inflight' = inflight ]_vars

\* addDocument ran during a foreground fetch on a cache fetched before:
\* isLoading is still true and the old fetch time is still there
C18_Witness ==
    /\ last.op = "addDocument"
    /\ cache.isLoading
    /\ fetchingRef
    /\ Len(inflight) = 1
    /\ cache.lastFetched # Null
    /\ cache.lastFetched < now

\* C19: a network call is issued only by a getDocuments / refreshDocuments
\* call, one at most per call, and the failure of a fetch takes its call out
\* of flight without issuing another.
C19_NoRetry ==
    [][ /\ Len(inflight') > Len(inflight)
           => /\ IsCall(last')
              /\ last'.issued
              /\ Len(inflight') = Len(inflight) + 1
        /\ (last'.op = "settle" /\ last'.service = "error")
           => /\ Len(inflight') = Len(inflight) - 1
              /\ ~fetchingRef' ]_vars

\* time passed after a fetch failed on a never-fetched cache and nothing is
\* in flight
C19_Witness ==
    /\ last.op = "tick"
    /\ last.prev = "settle"
    /\ cache.lastFetched = Null
    /\ inflight = <<>>
    /\ ~fetchingRef

IsRecoveryCall(e) == e.op = "refreshDocuments" \/ (e.op = "getDocuments" /\ e.force)

\* C20: right after a failed fetch, and whenever the guard is released, a
\* refreshDocuments() or getDocuments(true) goes to the network; and when the
\* service answers such a call with a list, documents is that list,
\* lastFetched is the time of the answer and isLoading is false.
C20_Recoverable ==
    [][ /\ ( /\ IsRecoveryCall(last')
             /\ \/ ~fetchingRef
                \/ (last.op = "settle" /\ last.service = "error") )
           => /\ last'.issued
              /\ Len(inflight') = 1
        /\ (last'.op = "settle" /\ last'.service = "ok" /\ last'.call.awaited)
           => /\ cache'.documents = (IF last'.body.hasDocuments
                                     THEN last'.body.documents ELSE <<>>)
              /\ cache'.lastFetched = now'
              /\ ~cache'.isLoading
              /\ ~fetchingRef' ]_vars

\* a refreshDocuments() made right after the first fetch of the cache failed
\* went to the network
C20_Witness ==
    /\ last.op = "refreshDocuments"
    /\ last.prev = "settle"
    /\ cache.lastFetched = Null
    /\ last.issued
    /\ inflight = <<RefreshCall>>

C22_LazyStrictStaleness ==
    [][ /\ ( /\ IsPlainGet(last')
             /\ Len(cache.documents) > 0
             /\ cache.lastFetched # Null
             /\ now - cache.lastFetched = CACHE_TTL )
           => /\ ~last'.issued
              /\ last'.call = NoCall
              /\ inflight' = inflight
              /\ cache' = cache
        /\ ( /\ IsPlainGet(last')
             /\ Len(cache.documents) > 0
             /\ cache.lastFetched # Null
             /\ now - cache.lastFetched > CACHE_TTL )
           => /\ last'.call = BackgroundGet
              /\ cache' = cache
              /\ (inflight = <<>>
                    => /\ last'.issued
                       /\ inflight' = <<BackgroundGet>>
                       /\ ~cache'.isLoading)
        /\ last'.op = "tick"
           => /\ inflight' = inflight
              /\ fetchingRef' = fetchingRef
              /\ cache' = cache ]_vars

\* a read one millisecond past CACHE_TTL started a background fetch
C22_Witness ==
    /\ IsPlainGet(last)
    /\ last.issued
    /\ last.call = BackgroundGet
    /\ inflight = <<BackgroundGet>>
    /\ Len(cache.documents) > 0
    /\ cache.lastFetched # Null
    /\ now - cache.lastFetched = CACHE_TTL + 1
    /\ ~cache.isLoading

\* C23: along the scenario, the first getDocuments() goes to the network
\* and the answer [a, b] gives documents = [a, b] with isLoading false;
\* addDocument(c) on [a, b] gives [c, a, b]; removeDocument("a") on
\* [c, a, b] gives [c, b]; the getDocuments() made 3 minutes after the
\* fetch issues a background call and leaves the cache alone; isLoading is
\* never true after the first answer; and the answer [c, b] gives
\* documents = [c, b] with lastFetched the time of that answer.
C23_Scenario ==
    [][ /\ (last.op = "init" /\ last'.op = "getDocuments")
           => /\ last'.issued
              /\ inflight' = <<ForegroundGet(FALSE)>>
        /\ ( /\ last.op = "getDocuments" /\ now = 0
             /\ last'.op = "settle"
             /\ last'.body = [hasDocuments |-> TRUE, documents |-> <<"a", "b">>] )
           => cache' = [documents |-> <<"a", "b">>, lastFetched |-> 0, isLoading |-> FALSE]
        /\ ( /\ cache.documents = <<"a", "b">>
             /\ last'.op = "addDocument" /\ last'.doc = "c" )
           => cache'.documents = <<"c", "a", "b">>
        /\ ( /\ cache.documents = <<"c", "a", "b">>
             /\ last'.op = "removeDocument" /\ last'.doc = "a" )
           => cache'.documents = <<"c", "b">>
        /\ ( /\ cache.documents = <<"c", "b">>
             /\ now - cache.lastFetched = 3 * 60 * 1000
             /\ last'.op = "getDocuments" )
           => /\ last'.issued
              /\ last'.call = BackgroundGet
              /\ inflight' = <<BackgroundGet>>
              /\ cache' = cache
        /\ cache.lastFetched # Null => ~cache'.isLoading
        /\ ( /\ cache.documents = <<"c", "b">>
             /\ now - cache.lastFetched = 3 * 60 * 1000
             /\ last'.op = "settle"
             /\ last'.body = [hasDocuments |-> TRUE, documents |-> <<"c", "b">>] )
           => cache' = [documents |-> <<"c", "b">>, lastFetched |-> now', isLoading |-> FALSE]
      ]_vars

\* the end of the scenario: three minutes after the first fetch the
\* background fetch of the second read answered [c, b]
C23_Witness ==
    /\ last.op = "settle"
    /\ last.service = "ok"
    /\ last.prev = "getDocuments"
    /\ last.call = BackgroundGet
    /\ last.body.documents = <<"c", "b">>
    /\ last.had = 2
    /\ cache = [documents |-> <<"c", "b">>, lastFetched |-> 3 * 60 * 1000, isLoading |-> FALSE]
    /\ now = 3 * 60 * 1000

\* C24: invalidateCache leaves the pending call and the guard as they are;
\* a call made right after it while the fetch is still in flight is skipped,
\* and when the fetch that was in flight during the invalidation succeeds,
\* documents is the list it brought and lastFetched the time of its answer.
C24_InvalidateDoesNotCancel ==
    [][ /\ last'.op = "invalidateCache"
           => /\ inflight' = inflight
              /\ fetchingRef' = fetchingRef
        /\ (last.op = "invalidateCache" /\ inflight # <<>> /\ IsCall(last'))
           => /\ ~last'.issued
              /\ inflight' = inflight
        /\ (last.op = "invalidateCache" /\ last'.op = "settle" /\ last'.service = "ok")
           => /\ cache'.documents = (IF last'.body.hasDocuments
                                     THEN last'.body.documents ELSE <<>>)
              /\ cache'.lastFetched = now' ]_vars

\* the fetch that was in flight when the cache was invalidated filled it
C24_Witness ==
    /\ last.op = "settle"
    /\ last.service = "ok"
    /\ last.prev = "invalidateCache"
    /\ last.had = 0
    /\ Len(cache.documents) > 0
    /\ cache.documents = last.body.documents
    /\ cache.lastFetched = now

\* C25: on a cache that has documents and lastFetched null, getDocuments()
\* takes the background path: it resolves at once and leaves the cache as
\* it is, with nothing in flight it issues one call and isLoading stays
\* false, and when that fetch fails nothing is raised and isLoading is false.
C25_AddedNeverFetched ==
    [][ /\ ( /\ IsPlainGet(last')
             /\ Len(cache.documents) > 0
             /\ cache.lastFetched = Null )
           => /\ last'.call = BackgroundGet
              /\ last'.result = "resolved"
              /\ cache' = cache
              /\ (inflight = <<>>
                    => /\ last'.issued
                       /\ inflight' = <<BackgroundGet>>
                       /\ ~cache'.isLoading)
        /\ (last'.op = "settle" /\ last'.call = BackgroundGet)
           => /\ ~cache'.isLoading
              /\ (last'.service = "error" => last'.result = "swallowed") ]_vars

\* before any tick (so the read found lastFetched null) the background
\* fetch of a read on added documents failed silently
C25_Witness ==
    /\ last.op = "settle"
    /\ last.service = "error"
    /\ last.call = BackgroundGet
    /\ last.result = "swallowed"
    /\ now = 0
    /\ cache.lastFetched = Null
    /\ Len(cache.documents) > 0
    /\ ~cache.isLoading

\* C26: lastFetched changes only in a successful settle, to the time of the
\* answer, or in invalidateCache, to null; so after a failed fetch a
\* getDocuments() on documents that are still stale issues a fetch again.
C26_LastFetchedFrame ==
    [][ /\ cache'.lastFetched # cache.lastFetched
           => \/ /\ last'.op = "settle"
                 /\ last'.service = "ok"
                 /\ cache'.lastFetched = now'
              \/ /\ last'.op = "invalidateCache"
                 /\ cache'.lastFetched = Null
        /\ ( /\ last.op = "settle"
             /\ last.service = "error"
             /\ IsPlainGet(last')
             /\ PopulatedStale )
           => /\ last'.issued
              /\ last'.call = BackgroundGet ]_vars

\* right after a fetch failed, a read of the still stale documents went to
\* the network again
C26_Witness ==
    /\ IsPlainGet(last)
    /\ last.prev = "settle"
    /\ last.issued
    /\ last.call = BackgroundGet
    /\ Len(cache.documents) > 0
    /\ cache.lastFetched # Null
    /\ now - cache.lastFetched > CACHE_TTL

RECURSIVE Without(_, _)
Without(s, id) ==
    IF s = <<>> THEN <<>>
    ELSE IF Head(s) = id THEN Without(Tail(s), id)
    ELSE <<Head(s)>> \o Without(Tail(s), id)

\* C27: removeDocument(id) leaves exactly the entries whose id differs from
\* id, in the order they had, and leaves lastFetched, isLoading, the guard
\* and the pending calls alone.
C27_RemoveAllMatching ==
    [][ last'.op = "removeDocument"
           => /\ cache'.documents = Without(cache.documents, last'.doc)
              /\ last'.doc \notin Range(cache'.documents)
              /\ cache'.lastFetched = cache.lastFetched
              /\ cache'.isLoading = cache.isLoading
              /\ fetchingRef' = fetchingRef
              /\ inflight' = inflight ]_vars

\* one removeDocument took two entries out of three
C27_Witness ==
    /\ last.op = "removeDocument"
    /\ last.had = 3
    /\ Len(cache.documents) = 1
    /\ last.doc \notin Range(cache.documents)

\* C30: when the service's answer has no documents field the fetch ends as
\* a success: documents is empty, lastFetched is the time of the answer,
\* isLoading is false, the guard is released and the caller's promise
\* resolves.
C30_MissingDocumentsField ==
    [][ (last'.op = "settle" /\ last'.service = "ok" /\ ~last'.body.hasDocuments)
           => /\ cache' = [documents |-> <<>>, lastFetched |-> now', isLoading |-> FALSE]
              /\ last'.result = "resolved"
              /\ ~fetchingRef' ]_vars

\* an answer without the documents field emptied a cache that had documents
C30_Witness ==
    /\ last.op = "settle"
    /\ last.service = "ok"
    /\ ~last.body.hasDocuments
    /\ last.result = "resolved"
    /\ last.had > 0
    /\ cache.documents = <<>>
    /\ cache.lastFetched = now

\* C28: the viewer touches the cache only in the continuation of a delete
\* call that succeeded, where it removes the entries of the id it asked to
\* delete: starting the delete and a delete that fails leave the cache as
\* it is, so the document stays listed.
C28_RemoveAfterDelete ==
    [][ /\ last'.op = "handleDeleteConfirm"
           => /\ cache' = cache
              /\ screens'.deleting = last'.doc
        /\ (last'.op = "delete" /\ last'.service = "error")
           => cache' = cache
        /\ (last'.op = "delete" /\ last'.service = "ok")
           => /\ screens.deleting = last'.doc
              /\ cache'.documents = Without(cache.documents, last'.doc)
              /\ cache'.lastFetched = cache.lastFetched
              /\ cache'.isLoading = cache.isLoading
        /\ (cache'.documents # cache.documents /\ last'.op # "settle")
           => (last'.op = "delete" /\ last'.service = "ok") ]_vars

\* the delete of a listed document failed and the document is still listed
C28_Witness ==
    /\ last.op = "delete"
    /\ last.service = "error"
    /\ last.prev = "handleDeleteConfirm"
    /\ last.doc \in Range(cache.documents)
    /\ Len(cache.documents) = last.had
    /\ ~isDeleting

\* C29: at most one upload is pending at any time; an upload that resolves
\* with a document record puts that document in front of the list, an upload
\* that fails or resolves without a record leaves the cache as it is, and so
\* does the start of a submit; after two uploads in a row that brought d1
\* and then d2 the list is d2, d1 and then what it held before.
C29_UploadAddsInOrder ==
    /\ [](screens.uploads <= 1)
    /\ [][ /\ last'.op = "handleSubmit" => cache' = cache
           /\ last'.op = "upload"
              => /\ screens.uploads = 1
                 /\ IF last'.service = "ok" /\ last'.doc # ""
                    THEN cache' = [cache EXCEPT !.documents = <<last'.doc>> \o cache.documents]
                    ELSE cache' = cache
           /\ ( /\ last.op = "upload" /\ last.service = "ok" /\ last.doc # ""
                /\ last'.op = "upload" /\ last'.service = "ok" /\ last'.doc # "" )
              => /\ SubSeq(cache'.documents, 1, 2) = <<last'.doc, last.doc>>
                 /\ SubSeq(cache'.documents, 3, Len(cache'.documents))
                       = Tail(cache.documents) ]_vars

\* on a list that was never fetched, the second upload of a submit put its
\* document in front of the one uploaded before it
C29_Witness ==
    /\ last.op = "upload"
    /\ last.service = "ok"
    /\ last.prev = "upload"
    /\ last.doc # ""
    /\ last.had = 1
    /\ Len(cache.documents) = 2
    /\ cache.documents[1] = last.doc
    /\ cache.documents[2] # last.doc
    /\ cache.lastFetched = Null
    /\ ~isUploading
====
